---- MODULE Spec2Model ----
(***************************************************************************)
(* Excuse Engine API (backend/main.py): the lexical classifier, the age    *)
(* style hint, the response sanitizer and the POST /generate handler.      *)
(*                                                                         *)
(* Python str values are TLA+ strings; a character is a string of length   *)
(* one, with a code point in U+0001 .. U+00FF other than the backtick.     *)
(* Optional[str] fields are records [isNone, val].                         *)
(***************************************************************************)
EXTENDS Integers, Sequences, FiniteSets, TLC

VARIABLES
    pc,           \* position of the handler (or of a direct function call)
    req,          \* GenerateReq of the request being handled
    inferred,     \* (inferred_audience, inferred_tone)
    audience_final,
    tone_final,
    persona_bits,
    user_msg,
    calls,        \* client.chat.completions.create calls made for this request
    completion,   \* what the generation service answered
    data,         \* result of safe_json_parse
    raised,       \* the exception caught at line 214, as [isNone, val = str(e)]
    resp,         \* the HTTP response
    log,          \* steps executed for this request, in order
    arg,          \* argument of a direct call of a pure function
    ret           \* its result

vars == <<pc, req, inferred, audience_final, tone_final, persona_bits, user_msg,
          calls, completion, data, raised, resp, log, arg, ret>>

----------------------------------------------------------------------------
(* Bounds of the model *)

\* ages run over -AgeSpan .. 2*AgeSpan
AgeSpan == 50

\* longest "options" list the generation service returns in the model
MaxOptions == 2

(* Program constants *)

\* len(text.split()) > 50
MaxWords == 50

\* variants: int = Field(1, ge=1, le=5)
VariantsMin == 1

VariantsMax == 5

----------------------------------------------------------------------------
(* Python str operations.                                                  *)
(*                                                                         *)
(* An operator that reads an argument at every position binds it first to  *)
(* a bound variable v (\E v \in {s}, or CHOOSE r \in {f(v) : v \in {s}}),  *)
(* so that the argument is evaluated once.  The value is the same.         *)

Null == [isNone |-> TRUE, val |-> ""]

Just(s) == [isNone |-> FALSE, val |-> s]

\* truthiness of an Optional[str]
Truthy(o) == ~o.isNone /\ o.val # ""

Range(f) == {f[i] : i \in DOMAIN f}

Char(s, i) == SubSeq(s, i, i)

(* The characters of the model are the code points U+0001 .. U+00FF       *)
(* without U+0060 (the backtick), which a TLA+ string cannot hold.         *)

\* the characters U+0001 .. U+005F, in order
LowChars == "\t\n\f\r !\"#$%&'()*+,-./0123456789:;<=>?@ABCDEFGHIJKLMNOPQRSTUVWXYZ[\\]^_"

\* the characters U+0061 .. U+00FF, in order
HighChars == "abcdefghijklmnopqrstuvwxyz{|}~ ¡¢£¤¥¦§¨©ª«¬­®¯°±²³´µ¶·¸¹º»¼½¾¿ÀÁÂÃÄÅÆÇÈÉÊËÌÍÎÏÐÑÒÓÔÕÖ×ØÙÚÛÜÝÞßàáâãäåæçèéêëìíîïðñòóôõö÷øùúûüýþÿ"

Codes == (1..255) \ {96}

\* chr(n)
Chr(n) == IF n < 96 THEN Char(LowChars, n) ELSE Char(HighChars, n - 96)

\* ord(c)
Ord == [c \in {Chr(n) : n \in Codes} |-> CHOOSE n \in Codes : Chr(n) = c]

\* the code points c with c.lower() != c: A-Z, U+00C0-U+00D6, U+00D8-U+00DE
UpperCodes == (65..90) \cup (192..214) \cup (216..222)

\* the code points c with c.isspace(): \t \n \v \f \r, U+001C-U+001F, the blank,
\* U+0085 and U+00A0
SpaceCodes == (9..13) \cup (28..32) \cup {133, 160}

\* c.lower() of one character: the lower-case letter lies 32 code points above
LowerChar(c) == IF Ord[c] \in UpperCodes THEN Chr(Ord[c] + 32) ELSE c

\* no character of v at a..b is an upper-case one
NoUpper(v, a, b) == \A i \in a..b : Ord[Char(v, i)] \notin UpperCodes

RECURSIVE lower_range(_, _, _)
\* the characters a..b of v, each lower-cased: a stretch without upper-case characters
\* is its own lower-casing, any other stretch is lower-cased by halves
lower_range(v, a, b) ==
    IF a > b THEN ""
    ELSE IF NoUpper(v, a, b) THEN SubSeq(v, a, b)
    ELSE IF a = b THEN LowerChar(Char(v, a))
    ELSE CHOOSE r \in
            {lower_range(w, x, m) \o lower_range(w, m + 1, y) :
                w \in {v}, x \in {a}, y \in {b}, m \in {(a + b) \div 2}} : TRUE

\* str.lower()
lower(s) == CHOOSE r \in {lower_range(v, 1, Len(v)) : v \in {s}} : TRUE

\* str.isspace() of one character
IsSpace(c) == Ord[c] \in SpaceCodes

\* v without its leading and trailing whitespace
strip_value(v) ==
    IF \A i \in 1..Len(v) : IsSpace(Char(v, i)) THEN ""
    ELSE SubSeq(v,
            CHOOSE i \in 1..Len(v) :
                ~IsSpace(Char(v, i)) /\ \A j \in 1..(i - 1) : IsSpace(Char(v, j)),
            CHOOSE i \in 1..Len(v) :
                ~IsSpace(Char(v, i)) /\ \A j \in (i + 1)..Len(v) : IsSpace(Char(v, j)))

\* str.strip()
strip(s) == CHOOSE r \in {strip_value(v) : v \in {s}} : TRUE

\* the positions of v where a maximal run of non-whitespace starts
word_starts(v) ==
    {i \in 1..Len(v) : ~IsSpace(Char(v, i)) /\ (i = 1 \/ IsSpace(Char(v, i - 1)))}

\* len(s.split())
word_count(s) == CHOOSE n \in {Cardinality(word_starts(v)) : v \in {s}} : TRUE

\* w in t (t is evaluated once, as the value v)
Contains(t, w) ==
    \E v \in {t} : \E i \in 0..(Len(v) - Len(w)) : SubSeq(v, i + 1, i + Len(w)) = w

\* the characters that occur in v
Chars(v) == {Char(v, i) : i \in 1..Len(v)}

\* any(w in t for w in words); a word can only occur in a text that holds its first
\* character, so the search runs for those words only
ContainsAny(t, words) ==
    \E v \in {t} : \E cs \in {Chars(v)} :
        \E w \in {x \in words : x = "" \/ Char(x, 1) \in cs} : Contains(v, w)

RECURSIVE join(_, _)
\* sep.join(bits)
join(sep, bits) ==
    IF bits = <<>> THEN ""
    ELSE IF Len(bits) = 1 THEN bits[1]
    ELSE bits[1] \o sep \o join(sep, Tail(bits))

----------------------------------------------------------------------------
(* Lexical classifier *)

WORK_WORDS ==
    {"work", "office", "shift", "deadline", "manager", "boss", "colleague",
     "meeting", "standup", "presentation", "interview", "client", "project",
     "deck", "call", "zoom", "teams", "slack"}

SCHOOL_WORDS ==
    {"school", "class", "lecture", "seminar", "professor", "teacher", "tutor",
     "assignment", "exam", "mock", "campus"}

PARTNER_WORDS ==
    {"partner", "girlfriend", "boyfriend", "fiancé", "fiance", "husband",
     "wife", "date", "anniversary", "relationship"}

FRIEND_WORDS == {"friend", "mate", "hangout", "drink", "party", "birthday", "pub"}

FAMILY_WORDS ==
    {"mum", "dad", "mother", "father", "parents", "sister", "brother", "family",
     "cousin", "aunt", "uncle"}

SERIOUS_WORDS ==
    {"upset", "hurt", "argument", "sorry", "apologise", "apologize", "forgot",
     "missed", "trust", "let down"}

MINOR_DELAY_WORDS ==
    {"late", "delay", "running", "traffic", "train", "bus", "tube", "metrolink",
     "tram", "signal", "wifi", "internet", "connection", "battery"}

\* the school branch is tested before the work branch
infer_audience_tone_school_first(s) ==
    LET t == lower(s)
    IN  IF ContainsAny(t, SCHOOL_WORDS \cup {"teacher", "tutor", "professor"})
        THEN [audience |-> "Teacher / Tutor", tone |-> "formal"]
        ELSE IF ContainsAny(t, {"boss", "manager"} \cup WORK_WORDS)
        THEN [audience |-> IF Contains(t, "client") THEN "Client"
                           ELSE IF ContainsAny(t, {"colleague", "coworker", "teammate"})
                                THEN "Colleague"
                           ELSE "Boss / Manager",
              tone |-> "formal"]
        ELSE IF ContainsAny(t, PARTNER_WORDS)
        THEN [audience |-> "Partner",
              tone |-> IF ContainsAny(t, SERIOUS_WORDS) THEN "sincere"
                       ELSE IF ContainsAny(t, MINOR_DELAY_WORDS) THEN "light-humour"
                       ELSE "sincere"]
        ELSE IF ContainsAny(t, FRIEND_WORDS)
        THEN [audience |-> "Friend", tone |-> "light-humour"]
        ELSE IF ContainsAny(t, FAMILY_WORDS)
        THEN [audience |-> "Parent / Family", tone |-> "sincere"]
        ELSE [audience |-> "General", tone |-> "sincere"]

\* the partner branch tests the minor-delay words before the serious words
infer_audience_tone_delay_first(s) ==
    LET t == lower(s)
    IN  IF ContainsAny(t, {"boss", "manager"} \cup WORK_WORDS)
        THEN [audience |-> IF Contains(t, "client") THEN "Client"
                           ELSE IF ContainsAny(t, {"colleague", "coworker", "teammate"})
                                THEN "Colleague"
                           ELSE "Boss / Manager",
              tone |-> "formal"]
        ELSE IF ContainsAny(t, SCHOOL_WORDS \cup {"teacher", "tutor", "professor"})
        THEN [audience |-> "Teacher / Tutor", tone |-> "formal"]
        ELSE IF ContainsAny(t, PARTNER_WORDS)
        THEN [audience |-> "Partner",
              tone |-> IF ContainsAny(t, MINOR_DELAY_WORDS) THEN "light-humour"
                       ELSE IF ContainsAny(t, SERIOUS_WORDS) THEN "sincere"
                       ELSE "sincere"]
        ELSE IF ContainsAny(t, FRIEND_WORDS)
        THEN [audience |-> "Friend", tone |-> "light-humour"]
        ELSE IF ContainsAny(t, FAMILY_WORDS)
        THEN [audience |-> "Parent / Family", tone |-> "sincere"]
        ELSE [audience |-> "General", tone |-> "sincere"]

infer_audience_tone(s) ==
    LET t == lower(s)
    IN  IF ContainsAny(t, {"boss", "manager"} \cup WORK_WORDS)
        THEN [audience |-> IF Contains(t, "client") THEN "Client"
                           ELSE IF ContainsAny(t, {"colleague", "coworker", "teammate"})
                                THEN "Colleague"
                           ELSE "Boss / Manager",
              tone |-> "formal"]
        ELSE IF ContainsAny(t, SCHOOL_WORDS \cup {"teacher", "tutor", "professor"})
        THEN [audience |-> "Teacher / Tutor", tone |-> "formal"]
        ELSE IF ContainsAny(t, PARTNER_WORDS)
        THEN [audience |-> "Partner",
              tone |-> IF ContainsAny(t, SERIOUS_WORDS) THEN "sincere"
                       ELSE IF ContainsAny(t, MINOR_DELAY_WORDS) THEN "light-humour"
                       ELSE "sincere"]
        ELSE IF ContainsAny(t, FRIEND_WORDS)
        THEN [audience |-> "Friend", tone |-> "light-humour"]
        ELSE IF ContainsAny(t, FAMILY_WORDS)
        THEN [audience |-> "Parent / Family", tone |-> "sincere"]
        ELSE [audience |-> "General",
              tone |-> IF ContainsAny(t, MINOR_DELAY_WORDS) THEN "sincere"
                       ELSE "sincere"]

----------------------------------------------------------------------------
(* Style hint resolver *)

\* the bands are closed on the right instead of on the left
age_style_hint_inclusive(age) ==
    IF age <= 18 THEN "Keep phrasing simple and clear (under 18)."
    ELSE IF age <= 30 THEN "Modern, natural phrasing; avoid heavy slang."
    ELSE IF age <= 45 THEN "Neutral professional phrasing."
    ELSE "Slightly more formal, straightforward phrasing (age 45+)."

age_style_hint(age) ==
    IF age < 18 THEN "Keep phrasing simple and clear (under 18)."
    ELSE IF age < 30 THEN "Modern, natural phrasing; avoid heavy slang."
    ELSE IF age < 45 THEN "Neutral professional phrasing."
    ELSE "Slightly more formal, straightforward phrasing (age 45+)."

----------------------------------------------------------------------------
(* JSON values.                                                            *)
(*                                                                         *)
(* An entry of an "options" list is [type, text]: type is the Python type  *)
(* name of the decoded entry, and for a dict entry text describes          *)
(* opt.get("text"): its Python type name ("missing" when the key is        *)
(* absent, so that get returns None), the string s when it is a str, and   *)
(* its truth value.                                                        *)

NoText == [type |-> "missing", s |-> "", truthy |-> FALSE]

\* {"text": s}
TextEntry(s) == [type |-> "dict", text |-> [type |-> "str", s |-> s, truthy |-> s # ""]]

\* {"text": <a value of Python type ty that is not a str>}
OtherEntry(ty, truthy) == [type |-> "dict", text |-> [type |-> ty, s |-> "", truthy |-> truthy]]

\* {} , with no "text" key
EmptyEntry == [type |-> "dict", text |-> NoText]

\* an entry that is not an object
NonDictEntry(ty) == [type |-> ty, text |-> NoText]

(* A decoded document is [type, s, has_options, options_type, options]:    *)
(* type is its Python type name, s its value when it is a str, and for a   *)
(* dict whether it has the key "options", the type of data["options"] and, *)
(* when that is a list, its entries.                                       *)

DictDoc(has, ty, opts) ==
    [type |-> "dict", s |-> "", has_options |-> has, options_type |-> ty, options |-> opts]

\* { "options": [ ... ] }
OptionsDoc(opts) == DictDoc(TRUE, "list", opts)

\* {}
EmptyDoc == DictDoc(FALSE, "missing", <<>>)

\* a document that is not an object: [] , null , or a string
PlainDoc(ty, s) ==
    [type |-> ty, s |-> s, has_options |-> FALSE, options_type |-> "missing", options |-> <<>>]

(* Raw content is a sequence of tokens [k, doc]: k = "fence" is ```,       *)
(* "json" the language tag, "sp" a blank, "nl" a line break, "junk" the    *)
(* word Sure, and "doc" the text of the document doc as json.dumps writes  *)
(* it.  Only a dict document contains braces, no document is a bare        *)
(* number, and texts inside documents contain no brace and no backtick.    *)

Tok(k) == [k |-> k, doc |-> EmptyDoc]

DocTok(d) == [k |-> "doc", doc |-> d]

IsWs(t) == t.k \in {"sp", "nl"}

\* results of a call that may raise: [ok, value, err = str(e)]
Ok(v) == [ok |-> TRUE, value |-> v, err |-> ""]

Raise(msg) == [ok |-> FALSE, value |-> EmptyDoc, err |-> msg]

\* json.dumps of one character of a string
EscChar(c) ==
    IF c = "\"" THEN "\\\""
    ELSE IF c = "\\" THEN "\\\\"
    ELSE IF c = "\n" THEN "\\n"
    ELSE IF c = "\t" THEN "\\t"
    ELSE IF c = "\r" THEN "\\r"
    ELSE IF c = "\f" THEN "\\f"
    ELSE IF Ord[c] = 8 THEN "\\b"
    ELSE IF Ord[c] < 32 \/ Ord[c] > 126
         THEN "\\u00" \o Char("0123456789abcdef", (Ord[c] \div 16) + 1)
                      \o Char("0123456789abcdef", (Ord[c] % 16) + 1)
    ELSE c

RECURSIVE escape_range(_, _, _)
\* the characters a..b of v, each escaped (by halves)
escape_range(v, a, b) ==
    IF a > b THEN ""
    ELSE IF a = b THEN EscChar(Char(v, a))
    ELSE CHOOSE r \in
            {escape_range(w, x, m) \o escape_range(w, m + 1, y) :
                w \in {v}, x \in {a}, y \in {b}, m \in {(a + b) \div 2}} : TRUE

\* json.dumps(s) of a str
JsonStr(s) == CHOOSE r \in {"\"" \o escape_range(v, 1, Len(v)) \o "\"" : v \in {s}} : TRUE

\* the text of a value of type ty that is no str of the model: null, a bool, 7 or 0,
\* 1.5 or 0.0, [1] or [], {"a": 1} or {}, "x" or ""
ValueText(ty, truthy) ==
    IF ty = "NoneType" THEN "null"
    ELSE IF ty = "bool" THEN (IF truthy THEN "true" ELSE "false")
    ELSE IF ty = "int" THEN (IF truthy THEN "7" ELSE "0")
    ELSE IF ty = "float" THEN (IF truthy THEN "1.5" ELSE "0.0")
    ELSE IF ty = "list" THEN (IF truthy THEN "[1]" ELSE "[]")
    ELSE IF ty = "dict" THEN (IF truthy THEN "{\"a\": 1}" ELSE "{}")
    ELSE (IF truthy THEN "\"x\"" ELSE "\"\"")

\* the text of one entry of the "options" list
EntryText(e) ==
    IF e.type # "dict" THEN ValueText(e.type, TRUE)
    ELSE IF e.text.type = "missing" THEN "{}"
    ELSE "{\"text\": "
            \o (IF e.text.type = "str" THEN JsonStr(e.text.s)
                ELSE ValueText(e.text.type, e.text.truthy))
            \o "}"

\* the text of a document, as json.dumps writes it
DocText(d) ==
    IF d.type = "dict"
    THEN IF ~d.has_options THEN "{}"
         ELSE "{\"options\": "
                \o (IF d.options_type = "list"
                    THEN "[" \o join(", ", [i \in 1..Len(d.options) |-> EntryText(d.options[i])])
                             \o "]"
                    ELSE ValueText(d.options_type, TRUE))
                \o "}"
    ELSE IF d.type = "str" THEN JsonStr(d.s)
    ELSE ValueText(d.type, FALSE)

\* len() of the text of one token: three backticks, json, a blank, a line break,
\* Sure, or the text of the document
TokLen(t) ==
    IF t.k = "fence" THEN 3
    ELSE IF t.k = "json" THEN 4
    ELSE IF t.k = "junk" THEN 4
    ELSE IF t.k = "doc" THEN Len(DocText(t.doc))
    ELSE 1

RECURSIVE Offset(_, _)
\* the index (from 0) in the text of c at which token i starts
Offset(c, i) == IF i <= 1 THEN 0 ELSE Offset(c, i - 1) + TokLen(c[i - 1])

\* str(JSONDecodeError(msg, doc, pos)) with pos the start of token i: line breaks
\* occur only as nl tokens, a document is written on one line
JSONDecodeError(msg, c, i) ==
    LET pos == Offset(c, i)
        nls == {k \in 1..(i - 1) : k <= Len(c) /\ c[k].k = "nl"}
        rfind == IF nls = {} THEN -1 ELSE Offset(c, CHOOSE k \in nls : \A m \in nls : m <= k)
    IN  msg \o ": line " \o ToString(Cardinality(nls) + 1)
            \o " column " \o ToString(pos - rfind)
            \o " (char " \o ToString(pos) \o ")"

RECURSIVE lstrip_ws(_)
lstrip_ws(c) == IF c # <<>> /\ IsWs(Head(c)) THEN lstrip_ws(Tail(c)) ELSE c

RECURSIVE rstrip_ws(_)
rstrip_ws(c) ==
    IF c # <<>> /\ IsWs(c[Len(c)]) THEN rstrip_ws(SubSeq(c, 1, Len(c) - 1)) ELSE c

\* ^ under re.MULTILINE: at the start, or right after a line break
AtLineStart(c, i) == i = 1 \/ c[i - 1].k = "nl"

\* $ under re.MULTILINE: at the end, or right before a line break
AtLineEnd(c, i) == i = Len(c) + 1 \/ c[i].k = "nl"

\* first index >= i of c that holds no whitespace token (Len(c) + 1 if none)
SkipWs(c, i) ==
    CHOOSE j \in i..(Len(c) + 1) :
        /\ \A k \in i..(j - 1) : IsWs(c[k])
        /\ (j = Len(c) + 1 \/ ~IsWs(c[j]))

\* json.loads: whitespace, one document, whitespace
json_loads(c) ==
    CHOOSE r \in
        {IF i > Len(v) \/ v[i].k # "doc"
         THEN Raise(JSONDecodeError("Expecting value", v, i))
         ELSE IF SkipWs(v, i + 1) > Len(v) THEN Ok(v[i].doc)
         ELSE Raise(JSONDecodeError("Extra data", v, SkipWs(v, i + 1))) :
            v \in {c}, i \in {SkipWs(c, 1)}} : TRUE

\* end (exclusive) of a match of ^```(?:json)?\s* at i, or 0
MatchOpen(c, i) ==
    IF i <= Len(c) /\ AtLineStart(c, i) /\ c[i].k = "fence"
    THEN IF i + 1 <= Len(c) /\ c[i + 1].k = "json" THEN SkipWs(c, i + 2)
         ELSE SkipWs(c, i + 1)
    ELSE 0

\* end (exclusive) of a match of \s*```$ at i, or 0
MatchClose(c, i) ==
    LET j == SkipWs(c, i)
    IN  IF j <= Len(c) /\ c[j].k = "fence" /\ AtLineEnd(c, j + 1) THEN j + 1 ELSE 0

\* where the scan of re.sub goes on after position i, which it drops or keeps:
\* [next, keep]
sub_step(c, i) ==
    IF MatchOpen(c, i) # 0 THEN [next |-> MatchOpen(c, i), keep |-> <<>>]
    ELSE IF MatchClose(c, i) # 0 THEN [next |-> MatchClose(c, i), keep |-> <<>>]
    ELSE [next |-> i + 1, keep |-> <<c[i]>>]

RECURSIVE fence_sub(_, _)
\* re.sub(r"^```(?:json)?\s*|\s*```$", "", c, flags=IGNORECASE | MULTILINE), from i
fence_sub(c, i) ==
    IF i > Len(c) THEN <<>>
    ELSE CHOOSE r \in {st.keep \o fence_sub(v, st.next) : v \in {c}, st \in {sub_step(c, i)}} :
            TRUE

\* re.search(r"\{.*\}", content, flags=re.DOTALL): first "{" to last "}"
brace_search(c) ==
    LET d == {i \in 1..Len(c) : c[i].k = "doc" /\ c[i].doc.type = "dict"}
    IN  IF d = {} THEN <<>>
        ELSE SubSeq(c, CHOOSE i \in d : \A j \in d : i <= j,
                       CHOOSE i \in d : \A j \in d : j <= i)

safe_json_parse(content) ==
    IF json_loads(content).ok THEN json_loads(content)
    ELSE IF json_loads(fence_sub(rstrip_ws(lstrip_ws(content)), 1)).ok
         THEN json_loads(fence_sub(rstrip_ws(lstrip_ws(content)), 1))
    ELSE IF brace_search(content) # <<>> THEN json_loads(brace_search(content))
    ELSE Raise("Model returned invalid JSON")

----------------------------------------------------------------------------
(* Response sanitizer *)

BANNED ==
    {"doctor note", "prescription", "fake note", "police", "court", "lawsuit",
     "insurance fraud", "bank fraud", "illegal", "cheat exam", "fake sick",
     "medical certificate", "tax fraud"}

\* the em dash of the source is written "-" here
FALLBACK == "Running a few minutes behind after a connection hiccup-back online shortly."

\* options[:limit]
Slice(options, limit) ==
    IF limit >= 0
    THEN SubSeq(options, 1, IF limit < Len(options) THEN limit ELSE Len(options))
    ELSE SubSeq(options, 1, Len(options) + limit)

\* results of filter_and_normalize: [ok, out, err = str(e)]
Out(out) == [ok |-> TRUE, out |-> out, err |-> ""]

OutRaise(msg) == [ok |-> FALSE, out |-> <<>>, err |-> msg]

AttributeError(ty, attr) == "'" \o ty \o "' object has no attribute '" \o attr \o "'"

\* what one pass of the loop body does with entry opt: [err, keep], err = str(e) of
\* what it raises ("" if nothing), keep the entries it appends
Pass(keep) == [err |-> "", keep |-> keep]

PassRaise(msg) == [err |-> msg, keep |-> <<>>]

\* lines 86-93 for the stripped text
keep_text(text) ==
    IF text = "" THEN Pass(<<>>)
    ELSE IF ContainsAny(lower(text), BANNED) THEN Pass(<<>>)
    ELSE IF word_count(text) > MaxWords THEN Pass(<<>>)
    ELSE Pass(<<[text |-> text]>>)

\* the text is tested after strip() but appended as received
loop_body_keep_raw(opt) ==
    IF opt.type # "dict" THEN PassRaise(AttributeError(opt.type, "get"))
    ELSE IF opt.text.truthy /\ opt.text.type # "str"
         THEN PassRaise(AttributeError(opt.text.type, "strip"))
    ELSE IF ~opt.text.truthy THEN Pass(<<>>)
    ELSE IF keep_text(strip(opt.text.s)).keep = <<>> THEN Pass(<<>>)
    ELSE Pass(<<[text |-> opt.text.s]>>)

\* an entry that is no object, or whose text is no string, is dropped like an empty one
loop_body_skip_bad(opt) ==
    IF opt.type # "dict" THEN Pass(<<>>)
    ELSE IF opt.text.truthy /\ opt.text.type # "str" THEN Pass(<<>>)
    ELSE IF ~opt.text.truthy THEN Pass(<<>>)
    ELSE CHOOSE r \in {keep_text(text) : text \in {strip(opt.text.s)}} : TRUE

\* lines 85-93 for one entry opt
loop_body(opt) ==
    IF opt.type # "dict" THEN PassRaise(AttributeError(opt.type, "get"))
    ELSE IF opt.text.truthy /\ opt.text.type # "str"
         THEN PassRaise(AttributeError(opt.text.type, "strip"))
    ELSE IF ~opt.text.truthy THEN keep_text("")
    ELSE CHOOSE r \in {keep_text(text) : text \in {strip(opt.text.s)}} : TRUE

RECURSIVE filter_loop(_, _)
\* the for loop of lines 84-93 over opts, with out so far
filter_loop(opts, out) ==
    IF opts = <<>> THEN Out(out)
    ELSE CHOOSE r \in
            {IF e.err # "" THEN OutRaise(e.err) ELSE filter_loop(rest, acc \o e.keep) :
                e \in {loop_body(Head(opts))}, rest \in {Tail(opts)}, acc \in {out}} : TRUE

\* lines 94-96 for the result r of the loop
or_fallback(r) == IF r.ok /\ r.out = <<>> THEN Out(<<[text |-> FALLBACK]>>) ELSE r

\* the loop runs over options instead of options[:limit]
filter_and_normalize_no_slice(options, limit) ==
    CHOOSE res \in {or_fallback(r) : r \in {filter_loop(options, <<>>)}} : TRUE

\* lines 94-95 are missing
filter_and_normalize_no_fallback(options, limit) ==
    filter_loop(Slice(options, limit), <<>>)

filter_and_normalize(options, limit) ==
    CHOOSE res \in {or_fallback(r) : r \in {filter_loop(Slice(options, limit), <<>>)}} : TRUE

----------------------------------------------------------------------------
(* POST /generate *)

VALID_TONES == {"sincere", "formal", "light-humour"}

\* the supplied tone is compared as written, without lower()
resolve_tone_case_sensitive(req_tone, inferred_tone) ==
    LET t == IF Truthy(req_tone) THEN req_tone.val ELSE inferred_tone
    IN  IF t \notin VALID_TONES THEN inferred_tone ELSE t

\* tone_final of lines 172-174
resolve_tone(req_tone, inferred_tone) ==
    LET t == lower(IF Truthy(req_tone) THEN req_tone.val ELSE inferred_tone)
    IN  IF t \notin VALID_TONES THEN inferred_tone ELSE t

\* persona_bits.append(f"{label}: {o}") under "if o:"
OptBit(label, o) == IF Truthy(o) THEN <<label \o ": " \o o.val>> ELSE <<>>

\* persona_bits of lines 177-187
build_persona_bits(r, audience, tone) ==
    OptBit("Location", r.location)
    \o OptBit("Role", r.role)
    \o OptBit("Gender", r.gender)
    \o <<"Age: " \o ToString(r.age)>>
    \o OptBit("Commute", r.commute)
    \o OptBit("Platform", r.platform)
    \o (IF audience # "" THEN <<"Audience: " \o audience>> ELSE <<>>)
    \o <<"Tone: " \o tone>>
    \o (IF r.slang THEN <<"Style: light slang allowed">> ELSE <<>>)
    \o <<age_style_hint(r.age)>>

\* user_msg of lines 190-196
build_user_msg(persona_str, scenario) ==
    "Return STRICT JSON:\n{ \"options\": [ { \"text\": string } ] }\n"
    \o "Make it read like the user would speak; subtly weave in relevant persona details "
    \o "(place, app, commute) only if they help. Do not add a follow-up line.\n"
    \o "Persona: \"" \o persona_str \o "\"\n"
    \o "Scenario: " \o scenario

\* lines 210-211: "" when data has an "options" list, else str(e) of what is raised
check_options(d) ==
    IF d.type = "dict"
    THEN IF d.has_options /\ d.options_type = "list" THEN ""
         ELSE "JSON missing 'options' list"
    ELSE IF d.type = "list" THEN "JSON missing 'options' list"
    ELSE IF d.type = "str"
         THEN IF Contains(d.s, "options") THEN "string indices must be integers, not 'str'"
              ELSE "JSON missing 'options' list"
    ELSE "argument of type '" \o d.type \o "' is not iterable"

NoResp == [status |-> 0, options |-> <<>>, detail |-> ""]

NoCompletion == [kind |-> "pending", content |-> <<>>, msg |-> ""]

----------------------------------------------------------------------------
(* Inputs *)

\* the end-to-end request of the specification
BaseReq ==
    [name |-> "Sam", age |-> 25,
     scenario |-> "running late for the train, stuck at a signal",
     tone |-> Null, gender |-> Null, audience |-> Null, location |-> Null,
     role |-> Null, commute |-> Null, platform |-> Null, slang |-> FALSE,
     variants |-> 2]

FullReq ==
    [name |-> "Alex", age |-> 47, scenario |-> "Forgot our anniversary dinner",
     tone |-> Just("Formal"), gender |-> Just("Female"), audience |-> Just("Partner"),
     location |-> Just("Manchester"), role |-> Just("software engineer"),
     commute |-> Just("train"), platform |-> Just("WhatsApp"), slang |-> TRUE,
     variants |-> 3]

\* scenarios whose inferred tone is formal, light-humour, sincere
ToneScenarios == {"Late for the BOSS", "pub with a mate", "mum rang"}

Tones ==
    {Null, Just(""), Just("FORMAL"), Just("Light-Humour"), Just("angry"), Just(" formal")}

Requests ==
    {[BaseReq EXCEPT !.variants = v] : v \in VariantsMin..VariantsMax}
    \cup {[BaseReq EXCEPT !.scenario = s, !.tone = t] : s \in ToneScenarios, t \in Tones}
    \cup {FullReq, [FullReq EXCEPT !.age = 17, !.tone = Just("angry"), !.audience = Just("")]}

RECURSIVE Words(_)
\* n words separated by single blanks
Words(n) == IF n <= 1 THEN "w" ELSE Words(n - 1) \o " w"

EntryPool ==
    {TextEntry("Sorry, my train was delayed."),
     TextEntry(Chr(11) \o " Stuck on the bus \n"),
     TextEntry("I will bring a Doctor Note"),
     TextEntry(Words(MaxWords)),
     TextEntry(Words(MaxWords + 1)),
     TextEntry(" \t" \o Chr(28)),
     OtherEntry("NoneType", FALSE),
     OtherEntry("int", TRUE),
     NonDictEntry("str")}

RECURSIVE Lists(_)
\* all lists of at most n entries of EntryPool
Lists(n) ==
    IF n = 0 THEN {<<>>}
    ELSE Lists(n - 1)
         \cup {Append(l, e) : l \in {x \in Lists(n - 1) : Len(x) = n - 1}, e \in EntryPool}

GoodDoc == OptionsDoc(<<TextEntry("Sorry, my train was delayed.")>>)

\* raw contents that exercise the three parsing stages and the "options" test
ParseContents ==
    LET F == Tok("fence")  J == Tok("json")  S == Tok("sp")  N == Tok("nl")
        X == Tok("junk")   G == DocTok(GoodDoc)
    IN  {<<F, J, N, G, N, F>>, <<F, N, G, N, F>>, <<F, J, S, G, S, F>>, <<S, G, N>>,
         <<X, S, G>>, <<G, S, X>>, <<X, N, F, J, N, G, N, F, N, X>>,
         <<G, N, G>>, <<X, G, X, G>>, <<F, J, N, G, N, F, N, G>>,
         <<X>>, <<F>>, <<S>>, <<>>, <<F, J, N, F>>,
         <<DocTok(PlainDoc("list", ""))>>, <<DocTok(PlainDoc("NoneType", ""))>>,
         <<DocTok(PlainDoc("str", "options"))>>, <<DocTok(PlainDoc("str", "x"))>>,
         <<F, N, DocTok(PlainDoc("list", "")), N, F>>,
         <<X, S, DocTok(PlainDoc("list", ""))>>,
         <<DocTok(EmptyDoc)>>, <<DocTok(DictDoc(TRUE, "str", <<>>))>>,
         <<DocTok(DictDoc(TRUE, "NoneType", <<>>))>>,
         <<X, DocTok(EmptyDoc)>>,
         <<F, J, N, DocTok(OptionsDoc(<<TextEntry("Call the POLICE"), NonDictEntry("int")>>)), N, F>>}

Completions ==
    {[kind |-> "content", content |-> <<DocTok(OptionsDoc(l))>>, msg |-> ""] :
        l \in Lists(MaxOptions)}
    \cup {[kind |-> "content", content |-> c, msg |-> ""] : c \in ParseContents}
    \cup {[kind |-> "none", content |-> <<>>, msg |-> ""],
          [kind |-> "nochoices", content |-> <<>>, msg |-> ""]}

\* str(e) of what client.chat.completions.create raises
CallErrors == {"Connection error.", "Request timed out."}

----------------------------------------------------------------------------
(* The handler, one request at a time: requests share no state *)

Init ==
    /\ pc = "idle"
    /\ req = BaseReq
    /\ inferred = [audience |-> "", tone |-> ""]
    /\ audience_final = ""
    /\ tone_final = ""
    /\ persona_bits = <<>>
    /\ user_msg = ""
    /\ calls = 0
    /\ completion = NoCompletion
    /\ data = EmptyDoc
    /\ raised = Null
    /\ resp = NoResp
    /\ log = <<>>
    /\ arg = ""
    /\ ret = ""

\* FastAPI hands a validated GenerateReq to generate()
Receive(r) ==
    /\ pc = "idle"
    /\ pc' = "classify"
    /\ req' = r
    /\ UNCHANGED <<inferred, audience_final, tone_final, persona_bits, user_msg, calls,
                   completion, data, raised, resp, log, arg, ret>>

\* lines 170-174
Classify ==
    /\ pc = "classify"
    /\ \E inf \in {infer_audience_tone(req.scenario)} :
        /\ inferred' = inf
        /\ audience_final' = IF Truthy(req.audience) THEN req.audience.val ELSE inf.audience
        /\ tone_final' = resolve_tone(req.tone, inf.tone)
    /\ log' = Append(log, "classify")
    /\ pc' = "assemble"
    /\ UNCHANGED <<req, persona_bits, user_msg, calls, completion, data, raised, resp, arg, ret>>

\* lines 177-196
Assemble ==
    /\ pc = "assemble"
    /\ \E bits \in {build_persona_bits(req, audience_final, tone_final)} :
        /\ persona_bits' = bits
        /\ user_msg' = build_user_msg(join(" | ", bits), req.scenario)
    /\ log' = Append(log, "assemble")
    /\ pc' = "call"
    /\ UNCHANGED <<req, inferred, audience_final, tone_final, calls, completion, data,
                   raised, resp, arg, ret>>

\* line 199: the blocking call is issued
CallGeneration ==
    /\ pc = "call"
    /\ calls' = calls + 1
    /\ log' = Append(log, "call")
    /\ pc' = "await"
    /\ UNCHANGED <<req, inferred, audience_final, tone_final, persona_bits, user_msg,
                   completion, data, raised, resp, arg, ret>>

\* line 199: the call returns a completion
GenerationReturns(c) ==
    /\ pc = "await"
    /\ completion' = c
    /\ log' = Append(log, "returned")
    /\ pc' = "sanitize"
    /\ UNCHANGED <<req, inferred, audience_final, tone_final, persona_bits, user_msg,
                   calls, data, raised, resp, arg, ret>>

\* a failed call is issued again instead of being reported
GenerationFailsRetry(msg) ==
    /\ pc = "await"
    /\ completion' = [kind |-> "error", content |-> <<>>, msg |-> msg]
    /\ log' = Append(log, "failed")
    /\ pc' = "call"
    /\ UNCHANGED <<req, inferred, audience_final, tone_final, persona_bits, user_msg,
                   calls, data, raised, resp, arg, ret>>

\* line 199: the call raises, and line 214 catches it
GenerationFails(msg) ==
    /\ pc = "await"
    /\ completion' = [kind |-> "error", content |-> <<>>, msg |-> msg]
    /\ raised' = Just(msg)
    /\ log' = Append(log, "failed")
    /\ pc' = "except"
    /\ UNCHANGED <<req, inferred, audience_final, tone_final, persona_bits, user_msg,
                   calls, data, resp, arg, ret>>

\* lines 210-212 for the parsed document d: the locals after them, as
\* [pc, data, raised, options]
after_parse(d, variants) ==
    IF check_options(d) # ""
    THEN [pc |-> "except", data |-> d, raised |-> Just(check_options(d)), options |-> <<>>]
    ELSE CHOOSE r \in
            {IF o.ok THEN [pc |-> "return", data |-> d, raised |-> Null, options |-> o.out]
             ELSE [pc |-> "except", data |-> d, raised |-> Just(o.err), options |-> <<>>] :
                o \in {filter_and_normalize(d.options, variants)}} : TRUE

\* lines 208-212 on completion c with limit variants: the locals after them, as
\* [pc, data, raised, options]
sanitize_result(c, variants) ==
    IF c.kind = "nochoices"
    THEN [pc |-> "except", data |-> EmptyDoc, raised |-> Just("list index out of range"),
          options |-> <<>>]
    ELSE CHOOSE r \in
            {IF ~parsed.ok
             THEN [pc |-> "except", data |-> EmptyDoc, raised |-> Just(parsed.err),
                   options |-> <<>>]
             ELSE after_parse(parsed.value, variants) :
                parsed \in {safe_json_parse(IF c.kind = "none" \/ c.content = <<>>
                                            THEN <<DocTok(EmptyDoc)>>
                                            ELSE c.content)}} : TRUE

\* lines 208-212
Sanitize ==
    /\ pc = "sanitize"
    /\ \E r \in {sanitize_result(completion, req.variants)} :
        /\ pc' = r.pc
        /\ data' = r.data
        /\ raised' = r.raised
        /\ resp' = [status |-> 0, options |-> r.options, detail |-> ""]
    /\ log' = Append(log, "sanitize")
    /\ UNCHANGED <<req, inferred, audience_final, tone_final, persona_bits, user_msg,
                   calls, completion, arg, ret>>

\* line 213
RespondOK ==
    /\ pc = "return"
    /\ resp' = [resp EXCEPT !.status = 200]
    /\ log' = Append(log, "respond")
    /\ pc' = "responded"
    /\ UNCHANGED <<req, inferred, audience_final, tone_final, persona_bits, user_msg,
                   calls, completion, data, raised, arg, ret>>

\* the handler answers 500 with a fixed detail
RespondErrorOpaque ==
    /\ pc = "except"
    /\ resp' = [status |-> 500, options |-> <<>>, detail |-> "Internal Server Error"]
    /\ log' = Append(log, "respond")
    /\ pc' = "responded"
    /\ UNCHANGED <<req, inferred, audience_final, tone_final, persona_bits, user_msg,
                   calls, completion, data, raised, arg, ret>>

\* line 215
RespondError ==
    /\ pc = "except"
    /\ resp' = [status |-> 500, options |-> <<>>, detail |-> raised.val]
    /\ log' = Append(log, "respond")
    /\ pc' = "responded"
    /\ UNCHANGED <<req, inferred, audience_final, tone_final, persona_bits, user_msg,
                   calls, completion, data, raised, arg, ret>>

\* the response is sent and the locals of the call are discarded
Finish ==
    /\ pc = "responded"
    /\ pc' = "idle"
    /\ req' = BaseReq
    /\ inferred' = [audience |-> "", tone |-> ""]
    /\ audience_final' = ""
    /\ tone_final' = ""
    /\ persona_bits' = <<>>
    /\ user_msg' = ""
    /\ calls' = 0
    /\ completion' = NoCompletion
    /\ data' = EmptyDoc
    /\ raised' = Null
    /\ resp' = NoResp
    /\ log' = <<>>
    /\ UNCHANGED <<arg, ret>>

Next ==
    \/ \E r \in Requests : Receive(r)
    \/ Classify
    \/ Assemble
    \/ CallGeneration
    \/ \E c \in Completions : GenerationReturns(c)
    \/ \E msg \in CallErrors : GenerationFails(msg)
    \/ Sanitize
    \/ RespondOK
    \/ RespondError
    \/ Finish

Spec == Init /\ [][Next]_vars

\* the handler runs to its response; the remote call may never answer
FairSpec ==
    /\ Spec
    /\ WF_vars(Classify)
    /\ WF_vars(Assemble)
    /\ WF_vars(CallGeneration)
    /\ WF_vars(Sanitize)
    /\ WF_vars(RespondOK)
    /\ WF_vars(RespondError)

----------------------------------------------------------------------------
(* Direct calls of the pure functions *)

HandlerIdle ==
    /\ req = BaseReq
    /\ inferred = [audience |-> "", tone |-> ""]
    /\ audience_final = ""
    /\ tone_final = ""
    /\ persona_bits = <<>>
    /\ user_msg = ""
    /\ calls = 0
    /\ completion = NoCompletion
    /\ data = EmptyDoc
    /\ raised = Null
    /\ resp = NoResp
    /\ log = <<>>

handler_vars ==
    <<req, inferred, audience_final, tone_final, persona_bits, user_msg, calls,
      completion, data, raised, resp, log>>

Keywords ==
    WORK_WORDS \cup SCHOOL_WORDS \cup PARTNER_WORDS \cup FRIEND_WORDS \cup FAMILY_WORDS
    \cup SERIOUS_WORDS \cup MINOR_DELAY_WORDS
    \cup {"coworker", "teammate", "hello", "the", "Manager", "UPDATE", "GirlFriend"}

SecondWords ==
    {"today", "boss", "client", "colleague", "teammate", "wife", "forgot", "late",
     "exam", "mate", "mum", "BOSS", "Sorry", "Anniversary", "meeting"}

Scenarios ==
    {a \o " " \o b : a \in Keywords, b \in SecondWords}
    \cup {"", "My FIANCÉ is upset", "My wife is upset, I am running late", "Husband forgot the train was delayed",
          "Missed my date because the bus was late, sorry",
          "forgot our anniversary, had a client call",
          "Let down my partner before the exam",
          "running late for the train, stuck at a signal"}

ClassifierInit ==
    /\ pc = "infer_call"
    /\ arg \in Scenarios
    /\ ret = [audience |-> "", tone |-> ""]
    /\ HandlerIdle

\* infer_audience_tone(arg)
InferCall ==
    /\ pc = "infer_call"
    /\ ret' = infer_audience_tone(arg)
    /\ pc' = "infer_done"
    /\ UNCHANGED <<arg, handler_vars>>

ClassifierNext == InferCall

ClassifierSpec == ClassifierInit /\ [][ClassifierNext]_vars

Ages == (-AgeSpan)..(2 * AgeSpan)

HintInit ==
    /\ pc = "hint_call"
    /\ arg \in Ages
    /\ ret = ""
    /\ HandlerIdle

\* age_style_hint(arg)
HintCall ==
    /\ pc = "hint_call"
    /\ ret' = age_style_hint(arg)
    /\ pc' = "hint_done"
    /\ UNCHANGED <<arg, handler_vars>>

HintNext == HintCall

HintSpec == HintInit /\ [][HintNext]_vars

----------------------------------------------------------------------------
(* Properties *)

Responded == pc = "responded"

Success == Responded /\ resp.status = 200

Failed == Responded /\ resp.status = 500

\* the parsed document carries an "options" list
HasOptionsList ==
    /\ completion.kind \in {"content", "none"}
    /\ data.type = "dict"
    /\ data.has_options
    /\ data.options_type = "list"

\* the entries the loop visits
Visited == Slice(data.options, req.variants)

NoBanned(t) == \A low \in {lower(t)} : \A bad \in BANNED : ~Contains(low, bad)

IsTextEntry(e) == e.type = "dict" /\ e.text.type = "str"

\* raises in the loop: no object, or a truthy text that is no string
RaisesInLoop(e) == e.type # "dict" \/ (e.text.truthy /\ e.text.type # "str")

\* C1: a successful response carries between 1 and variants options, each with a
\* text that is non-empty after trimming, of at most 50 words, with no banned phrase
\* (compared case-insensitively); the fallback option included.
C1_OptionsContract ==
    Success =>
        /\ Len(resp.options) >= 1
        /\ Len(resp.options) <= req.variants
        /\ \A i \in 1..Len(resp.options) :
            /\ strip(resp.options[i].text) # ""
            /\ word_count(resp.options[i].text) <= MaxWords
            /\ NoBanned(resp.options[i].text)

\* a success that kept some entries, dropped others and cut the list at variants
C1_Witness ==
    /\ Success
    /\ HasOptionsList
    /\ Len(data.options) > req.variants
    /\ Len(resp.options) = req.variants
    /\ resp.options[1].text # FALLBACK
    /\ \E i \in 1..Len(data.options) : IsTextEntry(data.options[i]) /\ ~NoBanned(data.options[i].text.s)

\* C2: a request ends either in a success carrying options or in one 500 response
\* whose detail is the message of the failure and that carries no option; a failed
\* generation call, unparsable content and a missing "options" list all end in 500.
C2_UniformError ==
    Responded =>
        /\ resp.status \in {200, 500}
        /\ resp.status = 200 => (raised.isNone /\ resp.options # <<>>)
        /\ resp.status = 500 =>
            (~raised.isNone /\ resp.detail = raised.val /\ resp.options = <<>>)
        /\ completion.kind = "error" =>
            (resp.status = 500 /\ resp.detail = completion.msg)
        /\ (completion.kind = "content" /\ completion.content # <<>>
                /\ \A i \in 1..Len(completion.content) : completion.content[i].k # "doc") =>
            (resp.status = 500 /\ resp.detail = "Model returned invalid JSON")
        /\ (completion.kind = "content" /\ ~safe_json_parse(completion.content).ok
                /\ completion.content # <<>>) =>
            resp.status = 500
        /\ (completion.kind \in {"content", "none"} /\ data.type \in {"dict", "list"}
                /\ ~(data.has_options /\ data.options_type = "list")
                /\ (completion.kind = "none" \/ completion.content = <<>>
                        \/ safe_json_parse(completion.content).ok)) =>
            (resp.status = 500 /\ resp.detail = "JSON missing 'options' list")

\* prose around two objects: the greedy brace match is not JSON, and the request fails
C2_Witness ==
    /\ Failed
    /\ completion.kind = "content"
    /\ Len(completion.content) > 1
    /\ \E i \in 1..Len(completion.content) : completion.content[i].k = "doc"
    /\ resp.detail \in {"Extra data: line 2 column 1 (char 56)",
                       "Extra data: line 1 column 56 (char 55)"}
    /\ resp.options = <<>>

\* the scenario holds a work term (or boss, manager)
HasWorkTerm(s) == \E w \in WORK_WORDS \cup {"boss", "manager"} : Contains(lower(s), w)

HasSchoolTerm(s) ==
    \E w \in SCHOOL_WORDS \cup {"teacher", "tutor", "professor"} : Contains(lower(s), w)

\* C3 as stated: a work term and no "client" give (Boss / Manager, formal).
C3_Original ==
    (pc = "infer_done" /\ HasWorkTerm(arg) /\ ~Contains(lower(arg), "client")) =>
        ret = [audience |-> "Boss / Manager", tone |-> "formal"]

\* C3 (amended): a scenario with a work term (or boss, manager) and none of client,
\* colleague, coworker, teammate is classified (Boss / Manager, formal).
C3_BossFormal ==
    (pc = "infer_done" /\ HasWorkTerm(arg)
        /\ \A w \in {"client", "colleague", "coworker", "teammate"} : ~Contains(lower(arg), w)) =>
        ret = [audience |-> "Boss / Manager", tone |-> "formal"]

\* an upper-case work term beside a school term
C3_Witness ==
    /\ pc = "infer_done"
    /\ arg = "exam BOSS"
    /\ ret.audience = "Boss / Manager"

\* C4 as stated: a partner term and a serious word give (Partner, sincere).
C4_Original ==
    (pc = "infer_done"
        /\ (\E w \in PARTNER_WORDS : Contains(lower(arg), w))
        /\ (\E w \in SERIOUS_WORDS : Contains(lower(arg), w))) =>
        ret = [audience |-> "Partner", tone |-> "sincere"]

\* C4 (amended): a scenario with a partner term and a serious word, and with no work
\* term and no school term, is classified (Partner, sincere).
C4_PartnerSincere ==
    (pc = "infer_done"
        /\ (\E w \in PARTNER_WORDS : Contains(lower(arg), w))
        /\ (\E w \in SERIOUS_WORDS : Contains(lower(arg), w))
        /\ ~HasWorkTerm(arg) /\ ~HasSchoolTerm(arg)) =>
        ret = [audience |-> "Partner", tone |-> "sincere"]

\* a partner term with a serious word and a minor-delay word
C4_Witness ==
    /\ pc = "infer_done"
    /\ arg = "My wife is upset, I am running late"
    /\ ret = [audience |-> "Partner", tone |-> "sincere"]

\* valid as C5 words it: text non-empty, at most 50 words, no banned phrase
ValidAsStated(e) ==
    /\ IsTextEntry(e)
    /\ e.text.s # ""
    /\ word_count(e.text.s) <= MaxWords
    /\ NoBanned(e.text.s)

\* valid: text non-empty after trimming, at most 50 words, no banned phrase
ValidTrimmed(e) ==
    /\ IsTextEntry(e)
    /\ strip(e.text.s) # ""
    /\ word_count(e.text.s) <= MaxWords
    /\ NoBanned(e.text.s)

\* C5 as stated: N valid entries and limit M <= N give exactly M options, the i-th
\* with the text of the i-th entry.
C5_Original ==
    (Responded /\ HasOptionsList /\ req.variants <= Len(data.options)
        /\ \A i \in 1..Len(data.options) : ValidAsStated(data.options[i])) =>
        /\ Success
        /\ Len(resp.options) = req.variants
        /\ \A i \in 1..req.variants : resp.options[i].text = data.options[i].text.s

\* C5 (amended): N entries that are valid after trimming and limit M <= N give exactly
\* M options, the i-th with the trimmed text of the i-th entry.
C5_FirstMTrimmed ==
    (Responded /\ HasOptionsList /\ req.variants <= Len(data.options)
        /\ \A i \in 1..Len(data.options) : ValidTrimmed(data.options[i])) =>
        /\ Success
        /\ Len(resp.options) = req.variants
        /\ \A i \in 1..req.variants : resp.options[i].text = strip(data.options[i].text.s)

\* two valid entries in order, the first padded with whitespace, and limit 2
C5_Witness ==
    /\ Success
    /\ HasOptionsList
    /\ req.variants = 2
    /\ Len(data.options) = 2
    /\ \A i \in 1..2 : ValidTrimmed(data.options[i])
    /\ data.options[1].text.s # strip(data.options[1].text.s)
    /\ data.options[1] # data.options[2]
    /\ Len(resp.options) = 2

\* empty after trimming (a missing or falsy text included), banned, or too long
Rejected(e) ==
    /\ e.type = "dict"
    /\ \/ ~e.text.truthy
       \/ /\ e.text.type = "str"
          /\ \/ strip(e.text.s) = ""
             \/ ~NoBanned(e.text.s)
             \/ word_count(e.text.s) > MaxWords

\* C6: when the options list is empty or all its entries are empty after trimming,
\* banned or longer than 50 words, the request succeeds with exactly the fallback.
C6_Fallback ==
    (Responded /\ HasOptionsList
        /\ \A i \in 1..Len(data.options) : Rejected(data.options[i])) =>
        /\ Success
        /\ resp.options = <<[text |-> FALLBACK]>>

\* a banned entry and a too-long entry, both rejected
C6_Witness ==
    /\ Success
    /\ HasOptionsList
    /\ Len(data.options) = 2
    /\ ~NoBanned(data.options[1].text.s)
    /\ word_count(data.options[2].text.s) > MaxWords
    /\ resp.options = <<[text |-> FALLBACK]>>

\* the tone C7 expects: the lower-cased supplied tone when it is one of the three
\* values, else the tone inferred from the scenario
ExpectedTone ==
    IF ~req.tone.isNone /\ lower(req.tone.val) \in {"sincere", "formal", "light-humour"}
    THEN lower(req.tone.val)
    ELSE infer_audience_tone(req.scenario).tone

\* C7: the persona string carries the lower-cased supplied tone when that is one of
\* sincere, formal, light-humour, and the inferred tone otherwise; always one of the
\* three values.
C7_ToneResolution ==
    /\ pc \in {"assemble", "call", "await"} => tone_final = ExpectedTone
    /\ pc \in {"call", "await"} =>
        Contains(user_msg, " | Tone: " \o ExpectedTone \o " | ")
    /\ pc \in {"call", "await", "sanitize", "except", "return", "responded"} =>
        /\ tone_final \in {"sincere", "formal", "light-humour"}
        /\ "Tone: " \o tone_final \in Range(persona_bits)
        /\ Cardinality({i \in 1..Len(persona_bits) : SubSeq(persona_bits[i], 1, 6) = "Tone: "}) = 1

\* an upper-case supplied tone overrides an inferred light-humour
C7_Witness ==
    /\ pc = "call"
    /\ req.tone = Just("FORMAL")
    /\ inferred.tone = "light-humour"
    /\ "Tone: formal" \in Range(persona_bits)

\* C8: age_style_hint maps age < 18, 18 <= age < 30, 30 <= age < 45 and age >= 45
\* (negative ages included) to four distinct fixed strings.
C8_AgeBands ==
    pc = "hint_done" =>
        /\ arg < 18 => ret = "Keep phrasing simple and clear (under 18)."
        /\ (18 <= arg /\ arg < 30) => ret = "Modern, natural phrasing; avoid heavy slang."
        /\ (30 <= arg /\ arg < 45) => ret = "Neutral professional phrasing."
        /\ arg >= 45 => ret = "Slightly more formal, straightforward phrasing (age 45+)."
        /\ arg = 17 => ret # age_style_hint(18)
        /\ arg = 29 => ret # age_style_hint(30)
        /\ arg = 44 => ret # age_style_hint(45)
        /\ arg < 0 => ret = age_style_hint(0)

\* the boundary 45 falls in the last band
C8_Witness ==
    /\ pc = "hint_done"
    /\ arg = 45
    /\ ret = "Slightly more formal, straightforward phrasing (age 45+)."

IsPrefix(a, b) == Len(a) <= Len(b) /\ SubSeq(b, 1, Len(a)) = a

\* the step order of one request
StepOrder ==
    /\ \/ IsPrefix(log, <<"classify", "assemble", "call", "returned", "sanitize", "respond">>)
       \/ IsPrefix(log, <<"classify", "assemble", "call", "failed", "respond">>)
    /\ calls <= 1
    /\ calls = Cardinality({i \in 1..Len(log) : log[i] = "call"})
    /\ Responded <=> (log # <<>> /\ log[Len(log)] = "respond")

\* C9: the steps of a request run in the order classify, assemble, generation call,
\* sanitize, respond; the generation service is called at most once; sanitization runs
\* only after the call returned; and once the call returned or failed a response follows.
C9_Pipeline ==
    /\ []StepOrder
    /\ (pc \in {"sanitize", "except"}) ~> Responded

\* a failed call answered with 500 after one call
C9_Witness ==
    /\ Failed
    /\ log = <<"classify", "assemble", "call", "failed", "respond">>
    /\ calls = 1

\* C10: among the first variants entries, an entry with a missing or falsy text is
\* dropped; one that is no object or whose truthy text is no string makes the request
\* fail with 500 and no option; entries beyond variants are never inspected.
C10_LoopFailure ==
    (Responded /\ HasOptionsList) =>
        IF \E i \in 1..Len(Visited) : RaisesInLoop(Visited[i])
        THEN /\ Failed
             /\ resp.options = <<>>
             /\ \E i \in 1..Len(Visited) :
                    /\ RaisesInLoop(Visited[i])
                    /\ \A j \in 1..(i - 1) : ~RaisesInLoop(Visited[j])
                    /\ resp.detail =
                         IF Visited[i].type # "dict"
                         THEN "'" \o Visited[i].type \o "' object has no attribute 'get'"
                         ELSE "'" \o Visited[i].text.type \o "' object has no attribute 'strip'"
        ELSE /\ Success
             /\ \/ resp.options = <<[text |-> FALLBACK]>>
                \/ /\ Len(resp.options) <=
                        Cardinality({i \in 1..Len(Visited) :
                            IsTextEntry(Visited[i]) /\ Visited[i].text.truthy})
                   /\ \A k \in 1..Len(resp.options) : \E i \in 1..Len(Visited) :
                        /\ IsTextEntry(Visited[i])
                        /\ resp.options[k].text = strip(Visited[i].text.s)

\* a valid entry followed by one that is no object, both within the limit
C10_Witness ==
    /\ Failed
    /\ HasOptionsList
    /\ req.variants >= 2
    /\ Len(data.options) = 2
    /\ ValidTrimmed(data.options[1])
    /\ data.options[2].type # "dict"
    /\ resp.options = <<>>

====
